---- MODULE Spec2Model ----
(***************************************************************************)
(* Model of the line-scan OVF editor of stephen-fox/vmwareify:             *)
(*   internal/xmlutil (FindObject, IsStartElement, IsEndElement,           *)
(*   lineIndentInfo, ValidateFormatting, the RawObject prefixes) and       *)
(*   ovf.EditRawOvf / processNextToken / editSystem / editItem.            *)
(*   The functions that build registered functions (mangle.go) and        *)
(*   vmwareify.BasicConvert with the files it reads and writes.            *)
(*                                                                         *)
(* A document is a sequence of lines.  A line is a record                  *)
(*   [ind  |-> the leading whitespace, a sequence of characters,           *)
(*    toks |-> the XML tokens written on the line after it].               *)
(* The input bytes are a sequence of [l |-> line, t |-> terminator] with   *)
(* t one of LF, CRLF or "" (a last line without terminator); the output    *)
(* buffer has the same shape, so two byte strings are equal exactly when   *)
(* the two sequences are equal.                                            *)
(***************************************************************************)
EXTENDS Integers, Sequences, FiniteSets, TLC

VARIABLES
    raw,        \* the input bytes handed to EditRawOvf (ioutil.ReadAll result)
    options,    \* EditOptions: [OnSystem, OnHardwareItems], lists of proposals
    pc,         \* "idle" (not called yet) | "start" | "scan" | "done" | "error"
    pos,        \* number of lines the bufio.Scanner has handed out so far
    newData,    \* the output buffer being assembled
    located,    \* one record per element handed to editSystem / editItem
    ret,        \* what EditRawOvf returned: [buf, err]
    disk,       \* the file system: the bytes and mode of every file
    convert,    \* BasicConvert: its arguments, its position, what it returned
    fsops,      \* the file-system calls BasicConvert has made, in order
    mangler     \* a mangler: [original, result, subtractCurrentOffsetBy, ...]

vars == <<raw, options, pc, pos, newData, located, ret, disk, convert, fsops,
          mangler>>

\* The variables EditRawOvf has no access to.
outer == <<disk, convert, fsops, mangler>>

----------------------------------------------------------------------------
(* Bounds of the model.                                                    *)

MaxElems == 1
MaxProposals == 2
MaxItems == 2

----------------------------------------------------------------------------
(* Characters, terminators, names and tokens.                              *)

SP  == " "
TAB == "\t"
LT  == "<"
LF   == "\n"
CRLF == "\r\n"

Rep(c, n) == [i \in 1..n |-> c]

Name(space, local) == [space |-> space, local |-> local]

StartTok(space, local) == [t |-> "start", name |-> Name(space, local), v |-> ""]
EndTok(space, local)   == [t |-> "end", name |-> Name(space, local), v |-> ""]
\* <name/>: one piece of text that the decoder reports as a start element
\* immediately followed by an end element.
SelfTok(space, local)  == [t |-> "selfclose", name |-> Name(space, local), v |-> ""]
CharTok(v)             == [t |-> "chardata", name |-> Name("", ""), v |-> v]

Line(ind, toks) == [ind |-> ind, toks |-> toks]

\* <space:local>v</space:local> on one line.
LeafToks(space, local, v) ==
    IF v = "" THEN <<StartTok(space, local), EndTok(space, local)>>
    ELSE <<StartTok(space, local), CharTok(v), EndTok(space, local)>>

RECURSIVE Flatten(_)
Flatten(ss) == IF ss = <<>> THEN <<>> ELSE Head(ss) \o Flatten(Tail(ss))

\* The tokens of a sequence of lines, in document order.
ToksOf(lines) == Flatten([i \in 1..Len(lines) |-> lines[i].toks])

\* The first characters of a line as the scanner returns it: the leading
\* whitespace followed by the first characters of the first token ("<" and
\* a name character for a tag, a text character for character data).
LineChars(line) ==
    line.ind \o
    ( IF line.toks = <<>> THEN <<>>
      ELSE IF line.toks[1].t = "chardata" THEN <<"a">>
      ELSE IF line.toks[1].t = "end" THEN <<LT, "/">>
      ELSE <<LT, "n">> )

----------------------------------------------------------------------------
(* internal/xmlutil                                                        *)

\* encoding/xml Decoder.RawToken on the trimmed line: the first token.
FirstRawToken(line) ==
    IF line.toks = <<>> THEN [t |-> "eof", name |-> Name("", ""), v |-> ""]
    ELSE line.toks[1]

IsStartElement(line) == FirstRawToken(line).t \in {"start", "selfclose"}

IsEndElement(line) == FirstRawToken(line).t = "end"

\* The loop of lineIndentInfo: the length of the run of s[1] that starts s.
RECURSIVE RunLength(_, _, _)
RunLength(s, c, i) ==
    IF i > Len(s) THEN 0
    ELSE IF s[i] = c THEN 1 + RunLength(s, c, i + 1)
    ELSE 0

lineIndentInfo(line) ==
    LET s == LineChars(line) IN
    IF Len(s) = 0 THEN [indentChar |-> SP, count |-> 0]
    ELSE [indentChar |-> s[1], count |-> RunLength(s, s[1], 1)]

\* xml.Unmarshal(raw, &struct{}): Decoder.Token (strict) is called until the
\* first start element, then until that element is closed; what follows the
\* closing tag is never read.  st is the stack of open element names.
\* Result: TRUE when no syntax error was met.
RECURSIVE UnmarshalFrom(_, _, _, _)
UnmarshalFrom(toks, i, st, started) ==
    IF started /\ st = <<>> THEN TRUE
    ELSE IF i > Len(toks) THEN FALSE
    ELSE LET tk == toks[i] IN
        CASE tk.t = "start" ->
                UnmarshalFrom(toks, i + 1, <<tk.name>> \o st, TRUE)
          [] tk.t = "selfclose" ->
                UnmarshalFrom(toks, i + 1, st, TRUE)
          [] tk.t = "end" ->
                IF st # <<>> /\ Head(st) = tk.name
                THEN UnmarshalFrom(toks, i + 1, Tail(st), started)
                ELSE FALSE
          [] OTHER ->
                UnmarshalFrom(toks, i + 1, st, started)

ValidateFormatting(toks) == UnmarshalFrom(toks, 1, <<>>, FALSE)

StartAndEndLinePrefix(o) == Rep(o.indentChar, o.initialIndentCount)

BodyPrefix(o) == Rep(o.indentChar, o.bodyIndentCount)

\* A relative prefix that forgets to subtract the indentation of the
\* opening line.
RelativeBodyPrefixWhole(o) == Rep(o.indentChar, o.bodyIndentCount)

RelativeBodyPrefix(o) ==
    LET difference == o.bodyIndentCount - o.initialIndentCount IN
    IF difference < 0 THEN <<>> ELSE Rep(o.indentChar, difference)

\* FindObject's scan loop: the index of the first line at or after i that
\* IsEndElement reports as an end element with the local name of start;
\* 0 when Scan() returns false first.
RECURSIVE FindEndLine(_, _, _)
FindEndLine(lines, i, local) ==
    IF i > Len(lines) THEN 0
    ELSE IF IsEndElement(lines[i]) /\ FirstRawToken(lines[i]).name.local = local
         THEN i
         ELSE FindEndLine(lines, i + 1, local)

\* A FindObject that searches a copy of the reader: the caller's scanner is
\* left on the opening line.
FindObjectOnCopy(lines, first, start, eol) ==
    LET firstLine == lines[first]
        info      == lineIndentInfo(firstLine)
        endLine   == FindEndLine(lines, first + 1, start.name.local)
        last      == IF endLine = 0 THEN Len(lines) ELSE endLine
        n         == last - first + 1
        data      == [k \in 1..n |->
                        [l |-> lines[first + k - 1],
                         t |-> IF k < n THEN eol ELSE ""]]
    IN [data               |-> data,
        initialIndentCount |-> info.count,
        bodyIndentCount    |-> IF first < Len(lines)
                               THEN lineIndentInfo(lines[first + 1]).count
                               ELSE 0,
        indentChar         |-> info.indentChar,
        last               |-> first,
        err                |-> ~ValidateFormatting(
                                  ToksOf([k \in 1..n |-> data[k].l]))]

\* FindObject with the scanner holding line `first` of `lines`.
\*   data: the captured lines, each followed by eol except the last one;
\*   last: the line the scanner holds when FindObject returns;
\*   err:  TRUE when FindObject returns a non-nil error.
FindObject(lines, first, start, eol) ==
    LET firstLine == lines[first]
        info      == lineIndentInfo(firstLine)
        endLine   == FindEndLine(lines, first + 1, start.name.local)
        last      == IF endLine = 0 THEN Len(lines) ELSE endLine
        n         == last - first + 1
        data      == [k \in 1..n |->
                        [l |-> lines[first + k - 1],
                         t |-> IF k < n THEN eol ELSE ""]]
        body      == IF first < Len(lines)
                     THEN lineIndentInfo(lines[first + 1]).count
                     ELSE 0
    IN [data               |-> data,
        initialIndentCount |-> info.count,
        bodyIndentCount    |-> body,
        indentChar         |-> info.indentChar,
        last               |-> last,
        err                |-> ~ValidateFormatting(
                                  ToksOf([k \in 1..n |-> data[k].l]))]

----------------------------------------------------------------------------
(* ovf: the records, their decoding and their serialization.               *)

NoOp    == "no_op"
Delete  == "delete"
Replace == "replace"

systemFieldName == "System"
itemFieldName   == "Item"

\* The fields of Item in declaration order, with the options of the
\* matching field of marshableItem.
ItemFields == <<
    [f |-> "Address",             omitempty |-> TRUE,  bool |-> FALSE],
    [f |-> "AddressOnParent",     omitempty |-> TRUE,  bool |-> FALSE],
    [f |-> "AllocationUnits",     omitempty |-> TRUE,  bool |-> FALSE],
    [f |-> "AutomaticAllocation", omitempty |-> TRUE,  bool |-> TRUE],
    [f |-> "Caption",             omitempty |-> FALSE, bool |-> FALSE],
    [f |-> "Description",         omitempty |-> FALSE, bool |-> FALSE],
    [f |-> "ElementName",         omitempty |-> FALSE, bool |-> FALSE],
    [f |-> "InstanceID",          omitempty |-> FALSE, bool |-> FALSE],
    [f |-> "Parent",              omitempty |-> TRUE,  bool |-> FALSE],
    [f |-> "ResourceSubType",     omitempty |-> TRUE,  bool |-> FALSE],
    [f |-> "ResourceType",        omitempty |-> FALSE, bool |-> FALSE],
    [f |-> "VirtualQuantity",     omitempty |-> TRUE,  bool |-> FALSE] >>

SystemFields == <<
    [f |-> "ElementName",             omitempty |-> FALSE, bool |-> FALSE],
    [f |-> "InstanceID",              omitempty |-> FALSE, bool |-> FALSE],
    [f |-> "VirtualSystemIdentifier", omitempty |-> FALSE, bool |-> FALSE],
    [f |-> "VirtualSystemType",       omitempty |-> FALSE, bool |-> FALSE] >>

FieldNames(fields) == {fields[i].f : i \in 1..Len(fields)}

\* The zero values Item{} and System{}.
ZeroItem ==
    [f \in FieldNames(ItemFields) |->
        IF f = "AutomaticAllocation" THEN "false" ELSE ""]

ZeroSystem == [f \in FieldNames(SystemFields) |-> ""]

\* The index of the token that closes the element opened at token s.
RECURSIVE ElementEnd(_, _, _)
ElementEnd(toks, i, depth) ==
    IF i > Len(toks) THEN 0
    ELSE IF toks[i].t = "start" THEN ElementEnd(toks, i + 1, depth + 1)
    ELSE IF toks[i].t = "end" THEN
        IF depth = 1 THEN i ELSE ElementEnd(toks, i + 1, depth - 1)
    ELSE IF toks[i].t = "selfclose" /\ depth = 0 THEN i
    ELSE ElementEnd(toks, i + 1, depth)

Depth(toks, i) ==
    Cardinality({j \in 1..(i - 1) : toks[j].t = "start"})
    - Cardinality({j \in 1..(i - 1) : toks[j].t = "end"})

Max(S) == CHOOSE x \in S : \A y \in S : y <= x

\* The decoder's translation of character data: an entity becomes the
\* character it names.
UnescapeText(v) == IF v = "a&amp;b" THEN "a&b" ELSE v

\* xml.EscapeText, used by the encoder for character data: a markup
\* character becomes an entity, and a character outside the XML character
\* range (such as the form feed) becomes U+FFFD.
EscapeText(v) ==
    IF v = "a&b" THEN "a&amp;b"
    ELSE IF v = "a\fb" THEN "aU+FFFDb"
    ELSE v

ChildText(toks, i) ==
    IF toks[i].t = "start" /\ i < Len(toks) /\ toks[i + 1].t = "chardata"
    THEN UnescapeText(toks[i + 1].v) ELSE ""

\* strconv.ParseBool on the text of a bool field; "" decodes to false.
ParseBool(v) ==
    IF v \in {"true", "1"} THEN [ok |-> TRUE, v |-> "true"]
    ELSE IF v \in {"false", "0", ""} THEN [ok |-> TRUE, v |-> "false"]
    ELSE [ok |-> FALSE, v |-> "false"]

\* xml.Unmarshal(data, &record): every field takes the text of the last
\* direct child of the first element of toks that has the field's local
\* name (any namespace prefix); a field without such a child keeps its zero
\* value.  What follows the first element is not read.
Unmarshal(toks, fields, zero) ==
    LET close == ElementEnd(toks, 1, 0)
        kids  == {i \in 2..(close - 1) :
                    /\ toks[i].t \in {"start", "selfclose"}
                    /\ Depth(toks, i) = 1}
        named == {toks[i].name.local : i \in kids}
        text  == [f \in named |->
                    ChildText(toks, Max({i \in kids : toks[i].name.local = f}))]
        isBool(f) == \E i \in 1..Len(fields) : fields[i].f = f /\ fields[i].bool
    IN [err |-> \E f \in FieldNames(fields) \cap named :
                    isBool(f) /\ ~ParseBool(text[f]).ok,
        rec |-> [f \in FieldNames(fields) |->
                    IF f \notin named THEN zero[f]
                    ELSE IF isBool(f) THEN ParseBool(text[f]).v
                    ELSE text[f]]]

\* xml.MarshalIndent(record.marshableFriendly(), prefix, indent): the start
\* tag line, one line per written field, the end tag line.  Every line
\* starts with prefix; the field lines continue with one copy of indent.
\* Fields marked omitempty are left out when empty (false for a bool).
RECURSIVE FieldLines(_, _, _, _, _)
FieldLines(rec, fields, i, space, ind) ==
    IF i > Len(fields) THEN <<>>
    ELSE LET fd == fields[i]
             empty == IF fd.bool THEN rec[fd.f] = "false" ELSE rec[fd.f] = ""
         IN (IF fd.omitempty /\ empty THEN <<>>
             ELSE <<Line(ind, LeafToks(space, fd.f, EscapeText(rec[fd.f])))>>)
            \o FieldLines(rec, fields, i + 1, space, ind)

MarshalIndent(rec, root, fields, space, prefix, indent) ==
    <<Line(prefix, <<StartTok("", root)>>)>>
    \o FieldLines(rec, fields, 1, space, prefix \o indent)
    \o <<Line(prefix, <<EndTok("", root)>>)>>

\* The bytes of a serialized record: its lines joined by "\n".
Joined(lines, eol) ==
    [k \in 1..Len(lines) |->
        [l |-> lines[k], t |-> IF k < Len(lines) THEN eol ELSE ""]]

----------------------------------------------------------------------------
(* ovf: the proposals and the edit functions.                              *)

\* strings.HasPrefix over the strings of the model: the prefixes of s.
Prefixes(s) ==
    {"", s} \cup
    ( IF s \in {"ideController0", "ideController1"}
      THEN {"ideController"} ELSE {} )

HasPrefix(s, prefix) == prefix \in Prefixes(s)

\* The functions a caller passes as modifyFunc.
ModifyFuncs == {"keep", "setCaption"}

ApplyModify(modifyFunc, i) ==
    IF modifyFunc = "setCaption" THEN [i EXCEPT !.Caption = "SATA Controller"]
    ELSE i

\* A registered function is a closure: the name of the function that built
\* it and the values it captured.  "ext" stands for any function written by
\* the caller, whose result for an element is an input of the pass.
ExtFunc == [fn |-> "ext"]

\* EditAction is a string type: its zero value is none of the three
\* constants.  ZeroResultFunc stands for a caller's function that returns
\* SystemResult{} / HardwareItemResult{}.
ZeroEditAction == ""

ZeroResultFunc == [fn |-> "zero"]

SetVirtualSystemTypeFunc(newVirtualSystemType) ==
    [fn |-> "SetVirtualSystemTypeFunc",
     newVirtualSystemType |-> newVirtualSystemType]

\* limit is captured by reference: the closure decrements it.
DeleteHardwareItemsMatchingFunc(elementNamePrefix, limit) ==
    [fn |-> "DeleteHardwareItemsMatchingFunc",
     elementNamePrefix |-> elementNamePrefix, limit |-> limit]

ReplaceHardwareItemFunc(elementName, item) ==
    [fn |-> "ReplaceHardwareItemFunc", elementName |-> elementName, item |-> item]

ModifyHardwareItemsOfResourceTypeFunc(resourceType, modifyFunc) ==
    [fn |-> "ModifyHardwareItemsOfResourceTypeFunc",
     resourceType |-> resourceType, modifyFunc |-> modifyFunc]

\* A SystemResult / HardwareItemResult; modified tells whether the call
\* invoked the caller's modifyFunc.
Result(action, new, modified) ==
    [EditAction |-> action, New |-> new, modified |-> modified]

\* A loop that goes on calling the remaining functions after one of them
\* has returned Delete or Replace.
RECURSIVE EvalProposalsNoBreak(_, _, _)
EvalProposalsNoBreak(answers, i, calls) ==
    IF i > Len(answers)
    THEN [action |-> NoOp, chosen |-> 0, calls |-> calls]
    ELSE LET a == answers[i].EditAction
             rest == EvalProposalsNoBreak(answers, i + 1,
                         Append(calls, [idx |-> i, res |-> a,
                                        modified |-> answers[i].modified]))
         IN IF a \in {Delete, Replace}
            THEN [action |-> a, chosen |-> i, calls |-> rest.calls]
            ELSE rest

\* A loop that invokes every function twice and uses the second result.
RECURSIVE EvalProposalsTwice(_, _, _)
EvalProposalsTwice(answers, i, calls) ==
    IF i > Len(answers)
    THEN [action |-> NoOp, chosen |-> 0, calls |-> calls]
    ELSE LET a == answers[i].EditAction
             c == [idx |-> i, res |-> a, modified |-> answers[i].modified]
             cs == calls \o <<c, c>>
         IN IF a = Delete THEN [action |-> Delete, chosen |-> i, calls |-> cs]
            ELSE IF a = Replace
                 THEN [action |-> Replace, chosen |-> i, calls |-> cs]
                 ELSE EvalProposalsTwice(answers, i + 1, cs)

\* The for loop of editSystem / editItem over the registered functions.
\* answers[i] is what the i-th function returns for this element.  The
\* switch has no default case: a result that is none of NoOp, Delete and
\* Replace falls out of the switch and the loop goes on.
\*   chosen: the index of the function that ended the loop, 0 if none did;
\*   calls:  the results of the functions invoked, in invocation order.
RECURSIVE EvalProposals(_, _, _)
EvalProposals(answers, i, calls) ==
    IF i > Len(answers)
    THEN [action |-> NoOp, chosen |-> 0, calls |-> calls]
    ELSE LET a == answers[i].EditAction
             cs == Append(calls, [idx |-> i, res |-> a,
                                  modified |-> answers[i].modified])
         IN IF a = Delete THEN [action |-> Delete, chosen |-> i, calls |-> cs]
            ELSE IF a = Replace
                 THEN [action |-> Replace, chosen |-> i, calls |-> cs]
                 ELSE EvalProposals(answers, i + 1, cs)

\* FindAndDeserializeObject for an element of the given kind whose opening
\* line is line `first`: FindObject, then xml.Unmarshal of its data.
FindAndDeserializeObject(lines, first, eol, kind) ==
    LET fields == IF kind = systemFieldName THEN SystemFields ELSE ItemFields
        zero   == IF kind = systemFieldName THEN ZeroSystem ELSE ZeroItem
        o      == FindObject(lines, first, FirstRawToken(lines[first]), eol)
        dec    == Unmarshal(ToksOf([k \in 1..Len(o.data) |-> o.data[k].l]),
                            fields, zero)
    IN IF o.err THEN [rawObject |-> o, err |-> "find", rec |-> zero]
       ELSE IF dec.err THEN [rawObject |-> o, err |-> "decode", rec |-> zero]
       ELSE [rawObject |-> o, err |-> "", rec |-> dec.rec]

\* editSystem / editItem after their first statement, whose outcome is fd:
\* the loop over the registered functions and the bytes handed back to
\* processNextToken.
EditObject(fd, first, answers, kind) ==
    LET fields == IF kind = systemFieldName THEN SystemFields ELSE ItemFields
        space  == IF kind = systemFieldName THEN "vssd" ELSE "rasd"
        o      == fd.rawObject
        ev     == EvalProposals(answers, 1, <<>>)
        base   == [kind |-> kind, first |-> first, last |-> o.last,
                   data |-> o.data,
                   initialIndentCount |-> o.initialIndentCount,
                   bodyIndentCount |-> o.bodyIndentCount,
                   indentChar |-> o.indentChar,
                   err |-> fd.err, decoded |-> fd.rec]
    IN IF fd.err # ""
       THEN base @@ [calls |-> <<>>, action |-> NoOp, result |-> <<>>,
                     new |-> fd.rec]
       ELSE base @@ [calls |-> ev.calls,
                     action |-> ev.action,
                     new |-> IF ev.action = Replace
                             THEN answers[ev.chosen].New ELSE fd.rec,
                     result |->
                        IF ev.action = Delete THEN <<>>
                        ELSE IF ev.action = Replace
                        THEN Joined(MarshalIndent(answers[ev.chosen].New,
                                        kind, fields, space,
                                        StartAndEndLinePrefix(o),
                                        RelativeBodyPrefix(o)), LF)
                        ELSE o.data]

editSystem(fd, first, answers) ==
    EditObject(fd, first, answers, systemFieldName)

editItem(fd, first, answers) ==
    EditObject(fd, first, answers, itemFieldName)

\* bufio.Scanner with ScanLines over raw: the lines without their
\* terminators (a trailing CR is dropped with the LF).
ScanLines(bytes) == [i \in 1..Len(bytes) |-> bytes[i].l]

\* The line terminator processNextToken passes to FindObject and writes
\* after every line or object.
assumedEol == LF

\* newData.Write(chunk); newData.Write([]byte{'\n'})
WriteChunk(buf, chunk, eol) ==
    buf \o [k \in 1..Len(chunk) |->
              IF k < Len(chunk) THEN chunk[k] ELSE [l |-> chunk[k].l, t |-> eol]]

\* A copy that writes the trimmed line instead of the raw line.
WriteLineTrimmed(buf, line, eol) ==
    Append(buf, [l |-> Line(<<>>, line.toks), t |-> eol])

\* newData.Write(rawLine); newData.Write([]byte{'\n'})
WriteLine(buf, line, eol) == Append(buf, [l |-> line, t |-> eol])

----------------------------------------------------------------------------
(* The inputs: documents and options.                                      *)

Styles == {
    [k |-> 0, step |-> 0, ch |-> SP,  eol |-> LF,   final |-> TRUE],
    [k |-> 1, step |-> 1, ch |-> TAB, eol |-> LF,   final |-> TRUE],
    [k |-> 2, step |-> 2, ch |-> SP,  eol |-> CRLF, final |-> TRUE],
    [k |-> 0, step |-> 2, ch |-> SP,  eol |-> LF,   final |-> FALSE] }

Indent(s, d) == Rep(s.ch, s.k + s.step * d)

ElemKinds ==
    {"item", "itemSelfClosing", "itemNested", "itemBadBool", "system", "info"}

\* The lines of one child element of the root.
Elem(s, e) ==
    CASE e = "item" ->
            << Line(Indent(s, 1), <<StartTok("", "Item")>>),
               Line(Indent(s, 2), LeafToks("rasd", "ElementName", "ideController0")),
               Line(Indent(s, 1), <<EndTok("", "Item")>>) >>
      [] e = "itemSelfClosing" ->
            << Line(Indent(s, 1), <<SelfTok("", "Item")>>) >>
      [] e = "itemNested" ->
            << Line(Indent(s, 1), <<StartTok("", "Item")>>),
               Line(Indent(s, 2), <<StartTok("", "Item")>>),
               Line(Indent(s, 2), <<EndTok("", "Item")>>),
               Line(Indent(s, 1), <<EndTok("", "Item")>>) >>
      [] e = "itemBadBool" ->
            << Line(Indent(s, 1), <<StartTok("", "Item")>>),
               Line(Indent(s, 2), LeafToks("rasd", "AutomaticAllocation", "maybe")),
               Line(Indent(s, 1), <<EndTok("", "Item")>>) >>
      [] e = "system" ->
            << Line(Indent(s, 1), <<StartTok("", "System")>>),
               Line(Indent(s, 2), LeafToks("vssd", "VirtualSystemType", "virtualbox-2.2")),
               Line(Indent(s, 1), <<EndTok("", "System")>>) >>
      [] e = "info" ->
            << Line(Indent(s, 1), LeafToks("", "Info", "info")) >>

\* How the document ends: with the root's end tag, without it, or with an
\* unclosed Item after it.
Endings == {"closed", "unclosed", "trailingItem"}

Ending(s, g) ==
    LET close == Line(Indent(s, 0), <<EndTok("", "Envelope")>>) IN
    CASE g = "closed" -> <<close>>
      [] g = "unclosed" -> <<>>
      [] g = "trailingItem" ->
            <<close, Line(Indent(s, 0), <<StartTok("", "Item")>>)>>

DocLines(s, body, g) ==
    <<Line(Indent(s, 0), <<StartTok("", "Envelope")>>)>>
    \o Flatten([i \in 1..Len(body) |-> Elem(s, body[i])])
    \o Ending(s, g)

Bytes(s, lines) ==
    [i \in 1..Len(lines) |->
        [l |-> lines[i],
         t |-> IF i < Len(lines) \/ s.final THEN s.eol ELSE ""]]

Bodies == UNION {[1..n -> ElemKinds] : n \in 0..MaxElems}

Inputs == {Bytes(s, DocLines(s, body, g)) :
              s \in Styles, body \in Bodies, g \in Endings}

\* Lists of functions written by the caller.
ProposalLists == UNION {[1..n -> {ExtFunc}] : n \in 0..MaxProposals}

OptionSets == [OnSystem : ProposalLists, OnHardwareItems : ProposalLists]

NewItem == [ZeroItem EXCEPT !.ElementName = "sataController0",
                            !.Caption = "SATA Controller",
                            !.ResourceType = "20",
                            !.Address = "0"]

NewSystem == [ZeroSystem EXCEPT !.VirtualSystemType = "vmx-10"]

\* What the registered function f may return when called with the decoded
\* record rec.  A caller's function returns one of the three EditActions
\* and a new record; the functions of this package return what their code
\* computes.
Answers(f, rec, kind) ==
    LET zero == IF kind = systemFieldName THEN ZeroSystem ELSE ZeroItem IN
    CASE f.fn = "ext" ->
            {Result(a, IF kind = systemFieldName THEN NewSystem ELSE NewItem,
                    FALSE) : a \in {NoOp, Delete, Replace}}
      [] f.fn = "zero" ->
            {Result(ZeroEditAction, zero, FALSE)}
      [] f.fn = "SetVirtualSystemTypeFunc" ->
            {Result(Replace,
                    [rec EXCEPT !.VirtualSystemType = f.newVirtualSystemType],
                    FALSE)}
      [] f.fn = "DeleteHardwareItemsMatchingFunc" ->
            IF f.limit = 0 THEN {Result(NoOp, zero, FALSE)}
            ELSE IF HasPrefix(rec.ElementName, f.elementNamePrefix)
                 THEN {Result(Delete, zero, FALSE)}
                 ELSE {Result(NoOp, zero, FALSE)}
      [] f.fn = "ReplaceHardwareItemFunc" ->
            IF rec.ElementName = f.elementName
            THEN {Result(Replace, f.item, FALSE)}
            ELSE {Result(NoOp, zero, FALSE)}
      [] f.fn = "ModifyHardwareItemsOfResourceTypeFunc" ->
            IF rec.ResourceType = f.resourceType
            THEN {Result(Replace, ApplyModify(f.modifyFunc, rec), TRUE)}
            ELSE {Result(NoOp, zero, FALSE)}

\* The results of the registered functions fs for one element.
AnswerLists(fs, rec, kind) ==
    {as \in [1..Len(fs) ->
                UNION {Answers(fs[i], rec, kind) : i \in 1..Len(fs)}] :
        \A i \in 1..Len(fs) : as[i] \in Answers(fs[i], rec, kind)}

\* The registered functions after the calls made for one element: a
\* function built by DeleteHardwareItemsMatchingFunc that returned Delete
\* has decremented its limit.
AfterCalls(fs, calls) ==
    [i \in 1..Len(fs) |->
        IF /\ i <= Len(calls)
           /\ fs[i].fn = "DeleteHardwareItemsMatchingFunc"
           /\ calls[i].res = Delete
        THEN [fs[i] EXCEPT !.limit = @ - 1]
        ELSE fs[i]]

----------------------------------------------------------------------------
(* The inputs: OVF documents, options made of this package's functions,    *)
(* and the files BasicConvert works on.                                    *)

OvfStyles == {
    [k |-> 0, step |-> 2, ch |-> SP, eol |-> LF, final |-> TRUE],
    [k |-> 0, step |-> 0, ch |-> SP, eol |-> LF, final |-> TRUE] }

\* An element at depth d with one line per <<local name, text>> of leaves.
Element(s, d, root, space, leaves) ==
    <<Line(Indent(s, d), <<StartTok("", root)>>)>>
    \o [i \in 1..Len(leaves) |->
          Line(Indent(s, d + 1), LeafToks(space, leaves[i][1], leaves[i][2]))]
    \o <<Line(Indent(s, d), <<EndTok("", root)>>)>>

OvfElemKinds ==
    {"ide0", "ide1", "ide0OneLine", "sata0", "sata1", "disk1",
     "itemSelfClosing", "system", "systemReordered"}

\* The lines of one child of VirtualHardwareSection.
OvfElem(s, e) ==
    CASE e = "ide0" ->
            Element(s, 3, "Item", "rasd",
                <<<<"ElementName", "ideController0">>, <<"ResourceType", "5">>>>)
      [] e = "ide1" ->
            Element(s, 3, "Item", "rasd",
                <<<<"ElementName", "ideController1">>, <<"ResourceType", "5">>>>)
      [] e = "ide0OneLine" ->
            << Line(Indent(s, 3),
                    <<StartTok("", "Item")>>
                    \o LeafToks("rasd", "ElementName", "ideController0")
                    \o <<EndTok("", "Item")>>) >>
      [] e = "sata0" ->
            Element(s, 3, "Item", "rasd",
                <<<<"Caption", "sataController0">>,
                  <<"Description", "SATA Controller">>,
                  <<"ElementName", "sataController0">>,
                  <<"InstanceID", "5">>,
                  <<"ResourceSubType", "AHCI">>,
                  <<"ResourceType", "20">>>>)
      [] e = "sata1" ->
            Element(s, 3, "Item", "rasd",
                <<<<"Caption", "sataController1">>,
                  <<"Description", "SATA Controller">>,
                  <<"ElementName", "sataController1">>,
                  <<"InstanceID", "6">>,
                  <<"ResourceSubType", "AHCI">>,
                  <<"ResourceType", "20">>>>)
      [] e = "disk1" ->
            Element(s, 3, "Item", "rasd",
                <<<<"AddressOnParent", "0">>,
                  <<"Caption", "disk1">>,
                  <<"Description", "Disk Image">>,
                  <<"ElementName", "disk1">>,
                  <<"HostResource", "/disk/vmdisk1">>,
                  <<"InstanceID", "7">>,
                  <<"Parent", "5">>,
                  <<"ResourceType", "17">>>>)
      [] e = "itemSelfClosing" ->
            << Line(Indent(s, 3), <<SelfTok("", "Item")>>) >>
      [] e = "system" ->
            Element(s, 3, "System", "vssd",
                <<<<"ElementName", "Virtual Hardware Family">>,
                  <<"InstanceID", "0">>,
                  <<"VirtualSystemIdentifier", "centos7">>,
                  <<"VirtualSystemType", "virtualbox-2.2">>>>)
      [] e = "systemReordered" ->
            Element(s, 3, "System", "vssd",
                <<<<"VirtualSystemType", "virtualbox-2.2">>,
                  <<"ElementName", "Virtual Hardware Family">>,
                  <<"InstanceID", "0">>,
                  <<"VirtualSystemIdentifier", "centos7">>>>)

OvfLines(s, body) ==
    << Line(Indent(s, 0), <<StartTok("", "Envelope")>>),
       Line(Indent(s, 1), <<StartTok("", "VirtualSystem")>>),
       Line(Indent(s, 2), <<StartTok("", "VirtualHardwareSection")>>) >>
    \o Flatten([i \in 1..Len(body) |-> OvfElem(s, body[i])])
    \o << Line(Indent(s, 2), <<EndTok("", "VirtualHardwareSection")>>),
          Line(Indent(s, 1), <<EndTok("", "VirtualSystem")>>),
          Line(Indent(s, 0), <<EndTok("", "Envelope")>>) >>

OvfBodies == UNION {[1..n -> OvfElemKinds] : n \in 0..MaxItems}

OvfInputs == {Bytes(s, OvfLines(s, body)) : s \in OvfStyles, body \in OvfBodies}

\* The records a caller hands to ReplaceHardwareItemFunc.
ReplacementItems ==
    { NewItem,
      [NewItem EXCEPT !.AutomaticAllocation = "true", !.Caption = "a&b"],
      [NewItem EXCEPT !.Description = "a\fb"] }

Limits == {0 - 1, 0, 1, 2}

BuiltOnSystem == {<<>>, <<SetVirtualSystemTypeFunc("vmx-10")>>}

BuiltOnHardwareItems ==
    {<<>>}
    \cup {<<DeleteHardwareItemsMatchingFunc("ideController", l)>> : l \in Limits}
    \cup {<<ReplaceHardwareItemFunc("sataController0", i)>> : i \in ReplacementItems}
    \cup {<<ModifyHardwareItemsOfResourceTypeFunc(t, m)>> :
             t \in {"20", "17"}, m \in ModifyFuncs}

BuiltOptionSets == [OnSystem : BuiltOnSystem, OnHardwareItems : BuiltOnHardwareItems]

\* Paths and the files they name: "./a.ovf" is another spelling of "a.ovf".
Paths == {"a.ovf", "./a.ovf", "b.ovf"}

File(path) == IF path = "./a.ovf" THEN "a.ovf" ELSE path

Files == {File(p) : p \in Paths}

Modes == {"0644", "0600"}

NoFile == [exists |-> FALSE, data |-> <<>>, mode |-> "0644"]

NotConverting ==
    [pc |-> "none", ovfFilePath |-> "", newFilePath |-> "", err |-> ""]

\* Documents whose element has its opening and closing lines indented with
\* n1 times c1 and its first body line with n2 times c2; a second body line
\* is indented as the opening line.
MaxIndent == 2

IndentChars == {SP, TAB}

SpanKinds == {"item", "system", "itemSelfClosing"}

SpanLines(c1, n1, c2, n2, e) ==
    LET open == Rep(c1, n1)
        body == Rep(c2, n2)
    IN
    <<Line(<<>>, <<StartTok("", "Envelope")>>)>>
    \o ( CASE e = "item" ->
                << Line(open, <<StartTok("", "Item")>>),
                   Line(body, LeafToks("rasd", "ElementName", "ideController0")),
                   Line(open, LeafToks("rasd", "ResourceType", "5")),
                   Line(open, <<EndTok("", "Item")>>) >>
           [] e = "system" ->
                << Line(open, <<StartTok("", "System")>>),
                   Line(body, LeafToks("vssd", "VirtualSystemType", "virtualbox-2.2")),
                   Line(open, LeafToks("vssd", "InstanceID", "0")),
                   Line(open, <<EndTok("", "System")>>) >>
           [] e = "itemSelfClosing" ->
                << Line(open, <<SelfTok("", "Item")>>),
                   Line(body, LeafToks("", "Info", "info")) >> )
    \o <<Line(<<>>, <<EndTok("", "Envelope")>>)>>

SpanInputs ==
    {Bytes([eol |-> LF, final |-> TRUE], SpanLines(c1, n1, c2, n2, e)) :
        c1 \in IndentChars, n1 \in 0..MaxIndent,
        c2 \in IndentChars, n2 \in 0..MaxIndent, e \in SpanKinds}

SpanOptionSets ==
    [OnSystem : {<<>>, <<ExtFunc>>},
     OnHardwareItems : {<<>>, <<ExtFunc>>, <<ZeroResultFunc>>,
                        <<ZeroResultFunc, ExtFunc>>}]

\* No mangler has been made.
NoMangler ==
    [pc |-> "none", original |-> <<>>, result |-> <<>>,
     subtractCurrentOffsetBy |-> 0, edited |-> 0]

----------------------------------------------------------------------------
(* EditRawOvf                                                              *)

Init ==
    /\ raw \in Inputs
    /\ options \in OptionSets
    /\ pc = "start"
    /\ pos = 0
    /\ newData = <<>>
    /\ located = <<>>
    /\ ret = [buf |-> "none", err |-> ""]
    /\ disk = [f \in Files |-> NoFile]
    /\ convert = NotConverting
    /\ fsops = <<>>
    /\ mangler = NoMangler

\* EditRawOvf up to the scan loop: xmlutil.ValidateFormatting(raw).
Validate ==
    /\ pc = "start"
    /\ IF ValidateFormatting(ToksOf(ScanLines(raw)))
       THEN /\ pc' = "scan"
            /\ ret' = ret
       ELSE /\ pc' = "error"
            /\ ret' = [buf |-> "nil", err |-> "validate"]
    /\ UNCHANGED <<raw, options, pos, newData, located>>
    /\ UNCHANGED outer

\* A switch without the len(...) == 0 checks: an element kind without
\* registered functions is located and decoded all the same.
RegisteredAlways(line) ==
    LET local == FirstRawToken(line).name.local
        some(fs) == IF fs = <<>> THEN <<ExtFunc>> ELSE fs
    IN
    IF ~IsStartElement(line) THEN <<>>
    ELSE IF local = systemFieldName THEN some(options.OnSystem)
    ELSE IF local = itemFieldName THEN some(options.OnHardwareItems)
    ELSE <<>>

\* The proposals registered for the element that line opens (the switch on
\* element.Name.Local in processNextToken).
Registered(line) ==
    LET local == FirstRawToken(line).name.local IN
    IF ~IsStartElement(line) THEN <<>>
    ELSE IF local = systemFieldName THEN options.OnSystem
    ELSE IF local = itemFieldName THEN options.OnHardwareItems
    ELSE <<>>

\* scanner.Scan() and processNextToken for a line that is no start element,
\* or opens an element without registered functions: the line is copied.
CopyLine ==
    /\ pc = "scan"
    /\ pos < Len(raw)
    /\ LET rawLine == ScanLines(raw)[pos + 1] IN
        /\ Registered(rawLine) = <<>>
        /\ newData' = WriteLine(newData, rawLine, assumedEol)
    /\ pos' = pos + 1
    /\ UNCHANGED <<raw, options, pc, located, ret>>
    /\ UNCHANGED outer

\* scanner.Scan() and processNextToken for a start element with registered
\* functions: editSystem / editItem, then the switch on the action.
EditElement ==
    /\ pc = "scan"
    /\ pos < Len(raw)
    /\ LET lines   == ScanLines(raw)
           rawLine == lines[pos + 1]
           fs      == Registered(rawLine)
           kind    == FirstRawToken(rawLine).name.local
           fd      == FindAndDeserializeObject(lines, pos + 1, assumedEol, kind)
       IN
        /\ fs # <<>>
        /\ \E answers \in AnswerLists(fs, fd.rec, kind) :
            LET e == IF kind = systemFieldName
                     THEN editSystem(fd, pos + 1, answers)
                     ELSE editItem(fd, pos + 1, answers)
            IN
            /\ located' = Append(located, e)
            /\ pos' = e.last
            /\ options' =
                 IF kind = systemFieldName
                 THEN [options EXCEPT !.OnSystem = AfterCalls(fs, e.calls)]
                 ELSE [options EXCEPT !.OnHardwareItems = AfterCalls(fs, e.calls)]
            /\ IF e.err # ""
               THEN /\ pc' = "error"
                    /\ ret' = [buf |-> "newData", err |-> e.err]
                    /\ newData' = newData
               ELSE IF e.action \notin {NoOp, Delete, Replace}
               THEN /\ pc' = "error"
                    /\ ret' = [buf |-> "newData", err |-> "unknown EditAction"]
                    /\ newData' = newData
               ELSE /\ pc' = pc
                    /\ ret' = ret
                    /\ newData' =
                         IF e.action = Delete THEN newData
                         ELSE IF Len(e.result) > 0
                         THEN WriteChunk(newData, e.result, assumedEol)
                         ELSE WriteLine(newData, rawLine, assumedEol)
    /\ UNCHANGED raw
    /\ UNCHANGED outer

\* scanner.Scan() returns false: EditRawOvf returns the buffer.
Finish ==
    /\ pc = "scan"
    /\ pos = Len(raw)
    /\ pc' = "done"
    /\ ret' = [buf |-> "newData", err |-> ""]
    /\ UNCHANGED <<raw, options, pos, newData, located>>
    /\ UNCHANGED outer

Next == Validate \/ CopyLine \/ EditElement \/ Finish

Spec == Init /\ [][Next]_vars

\* EditRawOvf called with an OVF document and functions of this package.
InitBuilt ==
    /\ raw \in OvfInputs
    /\ options \in BuiltOptionSets
    /\ pc = "start"
    /\ pos = 0
    /\ newData = <<>>
    /\ located = <<>>
    /\ ret = [buf |-> "none", err |-> ""]
    /\ disk = [f \in Files |-> NoFile]
    /\ convert = NotConverting
    /\ fsops = <<>>
    /\ mangler = NoMangler

SpecBuilt == InitBuilt /\ [][Next]_vars

\* EditRawOvf called with a document whose element is indented freely, and
\* with functions that may return the zero result.
InitSpans ==
    /\ raw \in SpanInputs
    /\ options \in SpanOptionSets
    /\ pc = "start"
    /\ pos = 0
    /\ newData = <<>>
    /\ located = <<>>
    /\ ret = [buf |-> "none", err |-> ""]
    /\ disk = [f \in Files |-> NoFile]
    /\ convert = NotConverting
    /\ fsops = <<>>
    /\ mangler = NoMangler

SpecSpans == InitSpans /\ [][Next]_vars

----------------------------------------------------------------------------
(* vmwareify: BasicConvert                                                 *)

virtualBoxPrimarySataController == "sataController0"

RemoveIdeControllersFunc(limit) ==
    DeleteHardwareItemsMatchingFunc("ideController", limit)

ConvertPrimarySataControllerFunc(existingController) ==
    ReplaceHardwareItemFunc(virtualBoxPrimarySataController,
        [existingController EXCEPT !.Caption = "SATA Controller",
                                   !.Description = "SATAController",
                                   !.ElementName = "SATAController0",
                                   !.ResourceSubType = "vmware.sata.ahci"])

\* The members of a set of numbers in ascending order.
RECURSIVE Ascending(_)
Ascending(S) ==
    IF S = {} THEN <<>>
    ELSE LET m == CHOOSE x \in S : \A y \in S : x <= y
         IN <<m>> \o Ascending(S \ {m})

\* The start tokens of the direct children, named local, of the elements
\* that start at the tokens of P.
Children(toks, P, local) ==
    {j \in 1..Len(toks) :
        /\ toks[j].t \in {"start", "selfclose"}
        /\ toks[j].name.local = local
        /\ \E i \in P :
            /\ i < j
            /\ j < ElementEnd(toks, i, 0)
            /\ Depth(toks, j) = Depth(toks, i) + 1}

\* ovf.ToOvf: xml.Unmarshal of the bytes into an Envelope.  Items holds the
\* Item children of Envelope / VirtualSystem / VirtualHardwareSection in
\* document order.
ToOvf(bytes) ==
    LET toks  == ToksOf(ScanLines(bytes))
        wellFormed ==
            /\ toks # <<>>
            /\ toks[1].t \in {"start", "selfclose"}
            /\ toks[1].name.local = "Envelope"
            /\ ValidateFormatting(toks)
        vs    == Children(toks, {1}, "VirtualSystem")
        vhs   == Children(toks, vs, "VirtualHardwareSection")
        at    == Ascending(Children(toks, vhs, itemFieldName))
        dec   == [n \in 1..Len(at) |->
                    Unmarshal(SubSeq(toks, at[n], Len(toks)), ItemFields, ZeroItem)]
    IN IF ~wellFormed THEN [err |-> TRUE, Items |-> <<>>]
       ELSE [err   |-> \E n \in 1..Len(dec) : dec[n].err,
             Items |-> [n \in 1..Len(dec) |-> dec[n].rec]]

\* The EditOptions BasicConvert builds from the decoded document.
EditOptionsFor(ovfData) ==
    LET Items == ovfData.Items
        found == {n \in 1..Len(Items) :
                    Items[n].ElementName = virtualBoxPrimarySataController}
    IN [OnSystem |-> <<SetVirtualSystemTypeFunc("vmx-10")>>,
        OnHardwareItems |->
            <<RemoveIdeControllersFunc(0 - 1)>>
            \o ( IF found = {} THEN <<>>
                 ELSE <<ConvertPrimarySataControllerFunc(
                            Items[Ascending(found)[1]])>> )]

FsOp(op, path) == [op |-> op, file |-> File(path)]

ioutilWriteFile(d, path, data, perm) ==
    [d EXCEPT ![File(path)] =
        [exists |-> TRUE, data |-> data,
         mode |-> IF d[File(path)].exists THEN d[File(path)].mode ELSE perm]]

\* BasicConvert up to its call of ovf.EditRawOvf, whose first statement
\* reads the file again.
BasicConvertBegin ==
    /\ convert.pc = "entry"
    /\ LET src     == convert.ovfFilePath
           ovfData == ToOvf(disk[File(src)].data)
       IN
       IF src = convert.newFilePath
       THEN /\ convert' = [convert EXCEPT !.pc = "returned", !.err = "same path"]
            /\ UNCHANGED <<raw, options, pc, fsops>>
       ELSE IF ~disk[File(src)].exists
       THEN /\ convert' = [convert EXCEPT !.pc = "returned", !.err = "open"]
            /\ fsops' = fsops \o <<FsOp("open", src)>>
            /\ UNCHANGED <<raw, options, pc>>
       ELSE IF ovfData.err
       THEN /\ convert' = [convert EXCEPT !.pc = "returned", !.err = "decode"]
            /\ fsops' = fsops \o <<FsOp("open", src), FsOp("read", src)>>
            /\ UNCHANGED <<raw, options, pc>>
       ELSE /\ convert' = [convert EXCEPT !.pc = "edit"]
            /\ fsops' = fsops \o <<FsOp("open", src), FsOp("read", src),
                                    FsOp("seek", src), FsOp("read", src)>>
            /\ raw' = disk[File(src)].data
            /\ options' = EditOptionsFor(ovfData)
            /\ pc' = "start"
    /\ UNCHANGED <<pos, newData, located, ret, disk, mangler>>

\* BasicConvert after ovf.EditRawOvf has returned.
BasicConvertEnd ==
    /\ convert.pc = "edit"
    /\ pc \in {"done", "error"}
    /\ IF ret.err # ""
       THEN /\ convert' = [convert EXCEPT !.pc = "returned", !.err = ret.err]
            /\ UNCHANGED <<disk, fsops>>
       ELSE /\ convert' = [convert EXCEPT !.pc = "returned"]
            /\ fsops' = fsops \o <<FsOp("stat", convert.ovfFilePath),
                                    FsOp("write", convert.newFilePath)>>
            /\ disk' = ioutilWriteFile(disk, convert.newFilePath, newData,
                                       disk[File(convert.ovfFilePath)].mode)
    /\ UNCHANGED <<raw, options, pc, pos, newData, located, ret, mangler>>

InitConvert ==
    /\ raw = <<>>
    /\ options = [OnSystem |-> <<>>, OnHardwareItems |-> <<>>]
    /\ pc = "idle"
    /\ pos = 0
    /\ newData = <<>>
    /\ located = <<>>
    /\ ret = [buf |-> "none", err |-> ""]
    /\ disk \in {[f \in Files |-> IF f = "a.ovf" THEN a ELSE b] :
                    a \in {[exists |-> TRUE, data |-> d, mode |-> m] :
                              d \in OvfInputs, m \in Modes},
                    b \in {NoFile, [exists |-> TRUE, data |-> <<>>, mode |-> "0644"]}}
    /\ convert \in {[pc |-> "entry", ovfFilePath |-> a, newFilePath |-> b,
                      err |-> ""] : a \in Paths, b \in Paths}
    /\ fsops = <<>>
    /\ mangler = NoMangler

NextConvert == BasicConvertBegin \/ BasicConvertEnd \/ Next

SpecConvert == InitConvert /\ [][NextConvert]_vars

----------------------------------------------------------------------------
(* cmd/vmwareify: main.  A path is the sequence of its characters.         *)

MaxName == 3

\* strings.LastIndex(s, c): zero-based, -1 when c does not occur in s.
LastIndex(s, c) ==
    LET at == {i \in 1..Len(s) : s[i] = c} IN
    IF at = {} THEN 0 - 1 ELSE Max(at) - 1

getFilenameWithoutExtension(filename) ==
    LET index == LastIndex(filename, ".") IN
    IF index > 0 THEN SubSeq(filename, 1, index) ELSE <<>>

getFileExtension(filename) ==
    LET index == LastIndex(filename, ".") IN
    IF index > 0 THEN SubSeq(filename, index + 1, Len(filename))
    ELSE <<".", "o", "v", "f">>

\* The elements of a path: the text between its slashes.
RECURSIVE Elements(_, _)
Elements(p, cur) ==
    IF p = <<>> THEN <<cur>>
    ELSE IF Head(p) = "/" THEN <<cur>> \o Elements(Tail(p), <<>>)
    ELSE Elements(Tail(p), Append(cur, Head(p)))

RECURSIVE Join(_)
Join(es) ==
    IF es = <<>> THEN <<>>
    ELSE IF Len(es) = 1 THEN es[1]
    ELSE es[1] \o <<"/">> \o Join(Tail(es))

\* path.Clean of a path without ".." elements: empty and "." elements are
\* dropped, the empty result is ".".
pathClean(p) ==
    LET kept == SelectSeq(Elements(p, <<>>),
                          LAMBDA e : e # <<>> /\ e # <<".">>)
        out  == (IF p # <<>> /\ p[1] = "/" THEN <<"/">> ELSE <<>>) \o Join(kept)
    IN IF out = <<>> THEN <<".">> ELSE out

RECURSIVE TrimSlashes(_)
TrimSlashes(p) ==
    IF p # <<>> /\ p[Len(p)] = "/"
    THEN TrimSlashes(SubSeq(p, 1, Len(p) - 1)) ELSE p

\* path.Base
pathBase(p) ==
    IF p = <<>> THEN <<".">>
    ELSE LET t == TrimSlashes(p)
             i == LastIndex(t, "/")
             b == IF i >= 0 THEN SubSeq(t, i + 2, Len(t)) ELSE t
         IN IF b = <<>> THEN <<"/">> ELSE b

\* path.Dir: path.Clean of the text through the last slash.
pathDir(p) == pathClean(SubSeq(p, 1, LastIndex(p, "/") + 1))

\* The command lines: -f with a file name in a directory, or without -f;
\* with or without -o; with or without -h.
NameChars == {"a", "."}

Names == UNION {[1..n -> NameChars] : n \in 1..MaxName}

Dirs == {<<>>, <<"/">>, <<"d", "/">>, <<"/", "d", "/">>, <<".", "/">>}

CommandLines ==
    [f : {<<>>} \cup {d \o n : d \in Dirs, n \in Names},
     o : {<<>>, <<"o">>},
     h : BOOLEAN]

InitMain ==
    /\ raw = <<>>
    /\ options = [OnSystem |-> <<>>, OnHardwareItems |-> <<>>]
    /\ pc = "idle"
    /\ pos = 0
    /\ newData = <<>>
    /\ located = <<>>
    /\ ret = [buf |-> "none", err |-> ""]
    /\ disk = [f \in Files |-> NoFile]
    /\ convert \in {[pc |-> "main", args |-> a, ovfFilePath |-> a.f,
                      newFilePath |-> a.o, err |-> ""] : a \in CommandLines}
    /\ fsops = <<>>
    /\ mangler = NoMangler

\* main up to its call of vmwareify.BasicConvert(*inputFilePath,
\* *outputFilePath): convert.pc = "entry" is that call.
Main ==
    /\ convert.pc = "main"
    /\ LET inputFilePath == convert.ovfFilePath
           inputFilename == pathBase(inputFilePath)
       IN convert' =
            IF convert.args.h
            THEN [convert EXCEPT !.pc = "exit"]
            ELSE IF Len(inputFilePath) = 0
            THEN [convert EXCEPT !.pc = "exit", !.err = "fatal"]
            ELSE IF Len(convert.newFilePath) = 0
            THEN [convert EXCEPT
                    !.pc = "entry",
                    !.newFilePath =
                        pathDir(inputFilePath) \o <<"/">>
                        \o getFilenameWithoutExtension(inputFilename)
                        \o <<"-", "v", "m", "w", "a", "r", "e">>
                        \o getFileExtension(inputFilename)]
            ELSE [convert EXCEPT !.pc = "entry"]
    /\ UNCHANGED <<raw, options, pc, pos, newData, located, ret, disk, fsops,
                   mangler>>

NextMain == Main

SpecMain == InitMain /\ [][NextMain]_vars

----------------------------------------------------------------------------
(* ovf: the mangler, which edits result at offsets of original.  Offsets   *)
(* are zero-based as in the code; original is <<1, ..., n>>, so that a     *)
(* byte tells the offset it came from, and a replacement is made of zeros. *)

MaxBytes == 4
MaxRaw == 2

\* s[lo:hi]
Slice(s, lo, hi) == SubSeq(s, lo + 1, hi)

\* deleteFrom: the mangler after the call and the returned count.  Slicing
\* result outside its bounds panics, after subtractCurrentOffsetBy has been
\* assigned.
deleteFrom(o, from, to) ==
    LET numCharsDeleted == to - from
        f == from - o.subtractCurrentOffsetBy
        t == to - o.subtractCurrentOffsetBy
        o1 == [o EXCEPT !.subtractCurrentOffsetBy = @ + numCharsDeleted]
    IN IF numCharsDeleted <= 0 THEN [o |-> o, deleted |-> 0]
       ELSE IF f < 0 \/ t > Len(o.result)
       THEN [o |-> [o1 EXCEPT !.pc = "panic"], deleted |-> numCharsDeleted]
       ELSE [o |-> [o1 EXCEPT !.result = Slice(o.result, 0, f)
                                         \o Slice(o.result, t, Len(o.result))],
             deleted |-> numCharsDeleted]

replaceFrom(o, from, to, newRaw) ==
    LET lastOffsetAdjustment == o.subtractCurrentOffsetBy
        d  == deleteFrom(o, from, to)
        f  == from - lastOffsetAdjustment
        replacementLength == Len(newRaw)
        o1 == [d.o EXCEPT !.subtractCurrentOffsetBy =
                  IF replacementLength - d.deleted > 0
                  THEN @ + replacementLength
                  ELSE @ - replacementLength]
    IN IF d.o.pc = "panic" THEN d.o
       ELSE IF f > Len(o1.result)
       THEN [o1 EXCEPT !.result = @ \o newRaw]
       ELSE IF f < 0
       THEN [o1 EXCEPT !.pc = "panic"]
       ELSE [o1 EXCEPT !.result = Slice(@, 0, f) \o newRaw
                                  \o Slice(@, f, Len(@))]

\* The byte ranges of original an edit may name after the edits made so
\* far: at or after the end of the last edited range.
Ranges ==
    {r \in (0..Len(mangler.original)) \X (0..Len(mangler.original)) :
        mangler.edited <= r[1] /\ r[1] <= r[2]}

Replacements == UNION {[1..n -> {0}] : n \in 0..MaxRaw}

\* newMangler and the reads of the decoder: result and original hold the
\* input.
InitMangler ==
    /\ raw = <<>>
    /\ options = [OnSystem |-> <<>>, OnHardwareItems |-> <<>>]
    /\ pc = "idle"
    /\ pos = 0
    /\ newData = <<>>
    /\ located = <<>>
    /\ ret = [buf |-> "none", err |-> ""]
    /\ disk = [f \in Files |-> NoFile]
    /\ convert = NotConverting
    /\ fsops = <<>>
    /\ mangler \in {[pc |-> "ready", original |-> [i \in 1..n |-> i],
                      result |-> [i \in 1..n |-> i],
                      subtractCurrentOffsetBy |-> 0, edited |-> 0] :
                        n \in 1..MaxBytes}

\* editSystem / editItem with a Delete result.
DeleteFrom ==
    /\ mangler.pc = "ready"
    /\ \E r \in Ranges :
        mangler' = [deleteFrom(mangler, r[1], r[2]).o EXCEPT !.edited = r[2]]
    /\ UNCHANGED <<raw, options, pc, pos, newData, located, ret, disk,
                   convert, fsops>>

\* editSystem / editItem with a Replace result.
ReplaceFrom ==
    /\ mangler.pc = "ready"
    /\ \E r \in Ranges, newRaw \in Replacements :
        mangler' = [replaceFrom(mangler, r[1], r[2], newRaw)
                        EXCEPT !.edited = r[2]]
    /\ UNCHANGED <<raw, options, pc, pos, newData, located, ret, disk,
                   convert, fsops>>

NextMangler == DeleteFrom \/ ReplaceFrom

SpecMangler == InitMangler /\ [][NextMangler]_vars

----------------------------------------------------------------------------
(* Vocabulary of the properties.                                           *)

InLines == ScanLines(raw)

OutLines == [i \in 1..Len(newData) |-> newData[i].l]

ResultLines(e) == [k \in 1..Len(e.result) |-> e.result[k].l]

RegisteredFor(kind) ==
    IF kind = systemFieldName THEN options.OnSystem ELSE options.OnHardwareItems

\* The line on which the element opened by the first token of line i is
\* closed, by nesting depth; 0 if it is never closed.
RECURSIVE CloseLine(_, _, _, _)
CloseLine(lines, i, j, depth) ==
    IF i > Len(lines) THEN 0
    ELSE IF j > Len(lines[i].toks) THEN CloseLine(lines, i + 1, 1, depth)
    ELSE LET t == lines[i].toks[j].t IN
        IF t = "start" THEN CloseLine(lines, i, j + 1, depth + 1)
        ELSE IF t = "end" THEN
            IF depth = 1 THEN i ELSE CloseLine(lines, i, j + 1, depth - 1)
        ELSE IF t = "selfclose" /\ depth = 0 THEN i
        ELSE CloseLine(lines, i, j + 1, depth)

ElementLastLine(lines, first) == CloseLine(lines, first, 1, 0)

\* The document as XML: exactly one root element, every element closed by
\* an end tag of its own name, nothing outside the root.
RECURSIVE WellFormedFrom(_, _, _, _)
WellFormedFrom(toks, i, st, roots) ==
    IF i > Len(toks) THEN st = <<>> /\ roots = 1
    ELSE LET tk == toks[i] IN
        CASE tk.t = "start" ->
                /\ (st = <<>> => roots = 0)
                /\ WellFormedFrom(toks, i + 1, <<tk.name>> \o st,
                                  IF st = <<>> THEN roots + 1 ELSE roots)
          [] tk.t = "selfclose" ->
                /\ (st = <<>> => roots = 0)
                /\ WellFormedFrom(toks, i + 1, st,
                                  IF st = <<>> THEN roots + 1 ELSE roots)
          [] tk.t = "end" ->
                /\ st # <<>>
                /\ Head(st) = tk.name
                /\ WellFormedFrom(toks, i + 1, Tail(st), roots)
          [] OTHER ->
                /\ st # <<>>
                /\ WellFormedFrom(toks, i + 1, st, roots)

WellFormed(toks) == WellFormedFrom(toks, 1, <<>>, 0)

\* The terminator the document uses.
DocEol == IF \E i \in 1..Len(raw) : raw[i].t = CRLF THEN CRLF ELSE LF

OnlySpaces(ind) == \A i \in 1..Len(ind) : ind[i] = SP

AllNoOp == \A n \in 1..Len(located) :
              \A j \in 1..Len(located[n].calls) : located[n].calls[j].res = NoOp

----------------------------------------------------------------------------
(* C1: when every registered function returns NoOp for every element, the  *)
(* bytes EditRawOvf returns are the input bytes.                           *)
C1_KeepIsIdentity ==
    (pc = "done" /\ AllNoOp) => newData = raw

(* C2: every input line outside the located spans is in the output,        *)
(* unchanged and in input order: the lines written so far are the lines    *)
(* scanned so far with every located span replaced by what was emitted for *)
(* it, and a pass that returns without error has scanned every line.       *)
RECURSIVE Emitted(_, _, _)
Emitted(i, k, upto) ==
    IF i > upto THEN <<>>
    ELSE IF k <= Len(located) /\ located[k].first = i
         THEN (IF located[k].err # "" THEN <<>> ELSE ResultLines(located[k]))
              \o Emitted(located[k].last + 1, k + 1, upto)
         ELSE <<InLines[i]>> \o Emitted(i + 1, k, upto)

C2_PassThrough ==
    /\ OutLines = Emitted(1, 1, pos)
    /\ pc = "done" => pos = Len(raw)

C2_Witness ==
    /\ pc = "done"
    /\ \E n \in 1..Len(located) :
        /\ located[n].action = Replace
        /\ located[n].first > 1
        /\ located[n].last < Len(raw)
        /\ InLines[located[n].last + 1].ind # <<>>

(* C3: the registered functions are invoked in registration order, and     *)
(* when functions 1..K-1 return NoOp and function K returns Delete or      *)
(* Replace, that is the element's action and no later function is invoked. *)
C3_ShortCircuit ==
    \A n \in 1..Len(located) :
        LET e == located[n] IN
        e.err = "" =>
            /\ Len(e.calls) <= Len(RegisteredFor(e.kind))
            /\ \A j \in 1..Len(e.calls) : e.calls[j].idx = j
            /\ \A K \in 1..Len(e.calls) :
                ( /\ \A j \in 1..(K - 1) : e.calls[j].res = NoOp
                  /\ e.calls[K].res \in {Delete, Replace} )
                => /\ e.action = e.calls[K].res
                   /\ Len(e.calls) = K

C3_Witness ==
    \E n \in 1..Len(located) :
        LET e == located[n] IN
        /\ e.err = ""
        /\ Len(e.calls) >= 1
        /\ Len(e.calls) < Len(RegisteredFor(e.kind))
        /\ e.calls[Len(e.calls)].res \in {Delete, Replace}

(* C4: a deleted element's opening line, body lines and closing line are   *)
(* left out of the output and every line before and after the element is   *)
(* emitted as in the input.                                                *)
C4_DeleteCompleteness ==
    (pc = "done" /\ Len(located) = 1 /\ located[1].action = Delete) =>
        LET e == located[1]
            endLine == ElementLastLine(InLines, e.first)
        IN OutLines = SubSeq(InLines, 1, e.first - 1)
                      \o SubSeq(InLines, endLine + 1, Len(InLines))

(* C5: a replaced element whose opening line is indented with k spaces,    *)
(* k >= 0, is emitted with its opening and closing lines indented with k   *)
(* spaces and its body lines with k + relative body indent spaces.         *)
C5_ReplaceIndentation ==
    \A n \in 1..Len(located) :
        LET e == located[n]
            k == Len(InLines[e.first].ind)
            body == IF e.first < Len(InLines)
                    THEN RunLength(InLines[e.first + 1].ind, SP, 1) ELSE 0
            rel == IF body > k THEN body - k ELSE 0
            m == Len(e.result)
        IN (e.err = "" /\ e.action = Replace /\ OnlySpaces(InLines[e.first].ind))
           => /\ e.result[1].l.ind = Rep(SP, k)
              /\ e.result[m].l.ind = Rep(SP, k)
              /\ \A j \in 2..(m - 1) : e.result[j].l.ind = Rep(SP, k + rel)

(* C6: every emitted line ends with the terminator the input document      *)
(* uses, and the lines of a located span are joined with it.               *)
C6_DetectedTerminator ==
    /\ \A i \in 1..Len(newData) : newData[i].t = DocEol
    /\ \A n \in 1..Len(located) :
        \A k \in 1..(Len(located[n].data) - 1) : located[n].data[k].t = DocEol

(* C7: for an element with a nested child of the same local name           *)
(* FindObject returns, without error, the span through the outer           *)
(* element's closing tag with the outer element's prefixes.                *)
HasSameNameChild(lines, first) ==
    /\ FirstRawToken(lines[first]).t = "start"
    /\ \E j \in (first + 1)..(ElementLastLine(lines, first) - 1) :
        /\ IsStartElement(lines[j])
        /\ FirstRawToken(lines[j]).name.local
              = FirstRawToken(lines[first]).name.local

C7_NestedSameName ==
    \A n \in 1..Len(located) :
        LET e == located[n] IN
        HasSameNameChild(InLines, e.first) =>
            /\ e.err = ""
            /\ e.last = ElementLastLine(InLines, e.first)
            /\ StartAndEndLinePrefix(e) = InLines[e.first].ind
            /\ BodyPrefix(e) = InLines[e.first + 1].ind

(* C8: the data of a span FindObject returns is the text of the input from *)
(* the element's opening line through its closing line, and a NoOp outcome *)
(* emits exactly that text.                                                *)
C8_SpanIsLiteralText ==
    \A n \in 1..Len(located) :
        LET e == located[n]
            endLine == ElementLastLine(InLines, e.first)
            m == endLine - e.first + 1
        IN e.err = "" =>
            /\ e.data = [k \in 1..m |->
                           [l |-> raw[e.first + k - 1].l,
                            t |-> IF k < m THEN raw[e.first + k - 1].t ELSE ""]]
            /\ e.action = NoOp => e.result = e.data

(* C9: when no line after the opening line holds a closing tag with the    *)
(* element's local name, FindObject returns an error.                      *)
NoClosingTagAfter(lines, first) ==
    \A j \in (first + 1)..Len(lines) :
        \A i \in 1..Len(lines[j].toks) :
            ~ ( /\ lines[j].toks[i].t = "end"
                /\ lines[j].toks[i].name.local
                      = FirstRawToken(lines[first]).name.local )

C9_UnclosedIsError ==
    \A n \in 1..Len(located) :
        NoClosingTagAfter(InLines, located[n].first) => located[n].err # ""

(* C10: for input that is not a well-formed document EditRawOvf returns an *)
(* error and no buffer before any line is scanned.                         *)
C10_RejectsMalformed ==
    (pc # "start" /\ ~WellFormed(ToksOf(InLines))) =>
        /\ pc = "error"
        /\ ret = [buf |-> "nil", err |-> "validate"]
        /\ pos = 0
        /\ located = <<>>
        /\ newData = <<>>

(* C11: when locating or decoding an element fails, the pass stops at that *)
(* element: none of its functions is invoked, no further step is taken,    *)
(* the error is returned, and the buffer assembled so far is not returned. *)
C11_ErrorAborts ==
    (pc = "error" /\ located # <<>>) =>
        LET e == located[Len(located)] IN
        /\ e.err # ""
        /\ e.calls = <<>>
        /\ \A n \in 1..(Len(located) - 1) : located[n].err = ""
        /\ ~ENABLED Next
        /\ ret.err = e.err
        /\ ret.buf # "newData"

(* C12: when the input is a well-formed document and EditRawOvf returns    *)
(* without error, the returned document is well-formed.                    *)
C12_OutputWellFormed ==
    (pc = "done" /\ WellFormed(ToksOf(InLines))) => WellFormed(ToksOf(OutLines))

(* C18: a start tag of a kind without registered functions is never        *)
(* located or decoded: its line is copied and the scan goes on with the    *)
(* next line.                                                              *)
OpensUnregistered(line) ==
    /\ IsStartElement(line)
    /\ FirstRawToken(line).name.local \in {systemFieldName, itemFieldName}
    /\ RegisteredFor(FirstRawToken(line).name.local) = <<>>

C18_EmptyListCopies ==
    [][ ( /\ pc = "scan"
          /\ pos < Len(raw)
          /\ OpensUnregistered(InLines[pos + 1]) )
        => ( /\ pos' = pos + 1
             /\ located' = located
             /\ newData' = Append(newData, [l |-> InLines[pos + 1],
                                            t |-> assumedEol]) ) ]_vars

C18_Witness ==
    /\ pc = "done"
    /\ options.OnHardwareItems = <<>>
    /\ options.OnSystem # <<>>
    /\ located = <<>>
    /\ OutLines = InLines
    /\ \E i \in 1..Len(InLines) :
        /\ OpensUnregistered(InLines[i])
        /\ ElementLastLine(InLines, i) > i

----------------------------------------------------------------------------
(* The document read by its element structure: the Items and Systems of a  *)
(* sequence of lines, and the lines an edit of them should produce.        *)

\* The lines that open an element named local.
Opening(lines, local) ==
    {i \in 1..Len(lines) :
        IsStartElement(lines[i]) /\ FirstRawToken(lines[i]).name.local = local}

\* The element that opens on line i, through its own closing tag.
ElementLines(lines, i) == SubSeq(lines, i, ElementLastLine(lines, i))

ItemAt(lines, i) ==
    Unmarshal(ToksOf(ElementLines(lines, i)), ItemFields, ZeroItem).rec

SystemAt(lines, i) ==
    Unmarshal(ToksOf(ElementLines(lines, i)), SystemFields, ZeroSystem).rec

\* The text of a record replacing the element on line i: the opening and
\* closing lines indented as line i, the fields as the element's first
\* body line.
Rendering(lines, i, rec, root, fields, space) ==
    LET open == lines[i].ind
        body == IF ElementLastLine(lines, i) > i THEN lines[i + 1].ind ELSE open
        rel  == IF Len(body) > Len(open)
                THEN SubSeq(body, Len(open) + 1, Len(body)) ELSE <<>>
    IN MarshalIndent(rec, root, fields, space, open, rel)

\* lines with the element that opens on line i replaced by change[i], for
\* every i in the domain of change.
RECURSIVE Rewritten(_, _, _)
Rewritten(lines, i, change) ==
    IF i > Len(lines) THEN <<>>
    ELSE IF i \in DOMAIN change
         THEN change[i] \o Rewritten(lines, ElementLastLine(lines, i) + 1, change)
         ELSE <<lines[i]>> \o Rewritten(lines, i + 1, change)

Min(a, b) == IF a < b THEN a ELSE b

\* The text EditRawOvf read from its reader as a string of markup: a line
\* whose indentation holds a markup character does not parse.
Parses(lines) ==
    \A i \in 1..Len(lines) :
        \A k \in 1..Len(lines[i].ind) : lines[i].ind[k] \in {SP, TAB}

(* C13: a function built by DeleteHardwareItemsMatchingFunc(prefix, limit),*)
(* registered alone, deletes the first min(limit, m) of the m Items whose  *)
(* ElementName starts with prefix (all m when limit < 0) and leaves every  *)
(* other line of the document as it is.                                    *)
C13_DeleteUpToLimit ==
    ( /\ pc = "done"
      /\ options.OnSystem = <<>>
      /\ Len(options.OnHardwareItems) = 1
      /\ options.OnHardwareItems[1].fn = "DeleteHardwareItemsMatchingFunc" )
    => LET f        == options.OnHardwareItems[1]
           deleted  == Cardinality({n \in 1..Len(located) :
                                      located[n].action = Delete})
           limit    == f.limit + deleted
           matching == Ascending({i \in Opening(InLines, itemFieldName) :
                          HasPrefix(ItemAt(InLines, i).ElementName,
                                    f.elementNamePrefix)})
           m        == Len(matching)
           count    == IF limit < 0 THEN m ELSE Min(limit, m)
           change   == [i \in {matching[n] : n \in 1..count} |-> <<>>]
       IN OutLines = Rewritten(InLines, 1, change)

(* C14: a function built by ReplaceHardwareItemFunc(elementName, item)     *)
(* returns Replace with item exactly for an Item whose ElementName is      *)
(* elementName and NoOp otherwise; registered alone it replaces exactly    *)
(* those Items by the rendering of item and leaves every other line as it  *)
(* is.                                                                     *)
C14_ReplaceByName ==
    ( /\ options.OnSystem = <<>>
      /\ Len(options.OnHardwareItems) = 1
      /\ options.OnHardwareItems[1].fn = "ReplaceHardwareItemFunc" )
    => LET f      == options.OnHardwareItems[1]
           named  == {i \in Opening(InLines, itemFieldName) :
                        ItemAt(InLines, i).ElementName = f.elementName}
           change == [i \in named |->
                        Rendering(InLines, i, f.item, itemFieldName,
                                  ItemFields, "rasd")]
       IN /\ \A n \in 1..Len(located) :
                LET e == located[n] IN
                e.err = "" =>
                    /\ Len(e.calls) = 1
                    /\ e.calls[1].res =
                         (IF e.decoded.ElementName = f.elementName
                          THEN Replace ELSE NoOp)
                    /\ e.action = Replace => e.new = f.item
          /\ pc = "done" => OutLines = Rewritten(InLines, 1, change)

(* C15: a function built by ModifyHardwareItemsOfResourceTypeFunc(         *)
(* resourceType, modifyFunc) returns Replace with modifyFunc(item) exactly *)
(* for an Item whose ResourceType is resourceType, calls modifyFunc only   *)
(* then, and returns NoOp otherwise; registered alone it rewrites every    *)
(* Item of that resource type and no other line.                           *)
C15_ModifyByResourceType ==
    ( /\ options.OnSystem = <<>>
      /\ Len(options.OnHardwareItems) = 1
      /\ options.OnHardwareItems[1].fn = "ModifyHardwareItemsOfResourceTypeFunc" )
    => LET f      == options.OnHardwareItems[1]
           typed  == {i \in Opening(InLines, itemFieldName) :
                        ItemAt(InLines, i).ResourceType = f.resourceType}
           change == [i \in typed |->
                        Rendering(InLines, i,
                                  ApplyModify(f.modifyFunc, ItemAt(InLines, i)),
                                  itemFieldName, ItemFields, "rasd")]
       IN /\ \A n \in 1..Len(located) :
                LET e == located[n]
                    hit == e.decoded.ResourceType = f.resourceType
                IN
                e.err = "" =>
                    /\ Len(e.calls) = 1
                    /\ e.calls[1].res = (IF hit THEN Replace ELSE NoOp)
                    /\ e.calls[1].modified = hit
                    /\ hit => e.new = ApplyModify(f.modifyFunc, e.decoded)
          /\ pc = "done" => OutLines = Rewritten(InLines, 1, change)

(* C16: with SetVirtualSystemTypeFunc(v) as the only registered function,  *)
(* the output is the input with the text of the System's VirtualSystemType *)
(* replaced by v: the other fields, the order of the fields, the           *)
(* indentation and the lines outside the System are those of the input.    *)
C16_SetVirtualSystemType ==
    ( /\ pc = "done"
      /\ options.OnHardwareItems = <<>>
      /\ Len(options.OnSystem) = 1
      /\ options.OnSystem[1].fn = "SetVirtualSystemTypeFunc" )
    => LET v == options.OnSystem[1].newVirtualSystemType
           inSystem(i) ==
               \E o \in Opening(InLines, systemFieldName) :
                   o < i /\ i < ElementLastLine(InLines, o)
           typeLine(i) ==
               /\ inSystem(i)
               /\ FirstRawToken(InLines[i]).name.local = "VirtualSystemType"
       IN OutLines =
            [i \in 1..Len(InLines) |->
                IF typeLine(i)
                THEN Line(InLines[i].ind, LeafToks("vssd", "VirtualSystemType", v))
                ELSE InLines[i]]

(* C17: the text emitted for a replaced Item, decoded again as an Item, is *)
(* the record that was supplied, in every field.                           *)
C17_RoundTrip ==
    \A n \in 1..Len(located) :
        LET e == located[n]
            again == Unmarshal(ToksOf(ResultLines(e)), ItemFields, ZeroItem)
        IN (e.err = "" /\ e.kind = itemFieldName /\ e.action = Replace)
           => /\ Parses(ResultLines(e))
              /\ ~again.err
              /\ again.rec = e.new

(* C19: BasicConvert called with the same string for both paths returns an *)
(* error without any file-system call, and no run of BasicConvert writes   *)
(* the source file.                                                        *)
C19_SourceNeverWritten ==
    /\ (convert.pc = "returned" /\ convert.ovfFilePath = convert.newFilePath)
         => (convert.err # "" /\ fsops = <<>>)
    /\ \A n \in 1..Len(fsops) :
         fsops[n].op = "write" => fsops[n].file # File(convert.ovfFilePath)

(* C20: the document a successful BasicConvert writes has no Item whose    *)
(* ElementName starts with "ideController", has every SATA controller Item *)
(* of the input converted to the VMware kind, and has "vmx-10" as the      *)
(* System's VirtualSystemType.                                             *)
IsSataController(i) == i.ResourceSubType \in {"AHCI", "vmware.sata.ahci"}

IsVmwareSata(i) ==
    /\ i.Caption = "SATA Controller"
    /\ i.Description = "SATAController"
    /\ i.ResourceSubType = "vmware.sata.ahci"

C20_BasicConvertResult ==
    (convert.pc = "returned" /\ convert.err = "") =>
        LET written == ScanLines(disk[File(convert.newFilePath)].data)
            items(lines) == {<<i, ItemAt(lines, i)>> :
                                i \in Opening(lines, itemFieldName)}
            sata(lines) == {p \in items(lines) : IsSataController(p[2])}
        IN /\ \A p \in items(written) :
                ~HasPrefix(p[2].ElementName, "ideController")
           /\ Cardinality(sata(written)) = Cardinality(sata(InLines))
           /\ \A p \in sata(written) : IsVmwareSata(p[2])
           /\ \A o \in Opening(written, systemFieldName) :
                SystemAt(written, o).VirtualSystemType = "vmx-10"

----------------------------------------------------------------------------
(* C22: the body indent count of a span is the number of repetitions of    *)
(* the span's indent character that start the line following the opening   *)
(* line, and it is taken from that line alone.                             *)
C22_BodyIndentCount ==
    \A n \in 1..Len(located) :
        LET e == located[n] IN
        e.first < Len(InLines) =>
            e.bodyIndentCount =
                RunLength(LineChars(InLines[e.first + 1]), e.indentChar, 1)

(* C23: the relative body prefix of a span is max(body indent count -       *)
(* initial indent count, 0) repetitions of its indent character: empty     *)
(* when the body is not indented deeper than the opening line, and the     *)
(* difference between the body prefix and the opening line's prefix when   *)
(* it is; the fields of a replacement are indented with the opening line's *)
(* prefix followed by it.                                                  *)
C23_RelativeBodyPrefix ==
    \A n \in 1..Len(located) :
        LET e == located[n]
            d == e.bodyIndentCount - e.initialIndentCount
            m == Len(e.result)
        IN /\ RelativeBodyPrefix(e) = Rep(e.indentChar, Max({d, 0}))
           /\ d <= 0 => RelativeBodyPrefix(e) = <<>>
           /\ d >= 0 => StartAndEndLinePrefix(e) \o RelativeBodyPrefix(e)
                          = BodyPrefix(e)
           /\ (e.err = "" /\ e.action = Replace) =>
                \A j \in 2..(m - 1) :
                    e.result[j].l.ind =
                        Rep(e.indentChar, e.initialIndentCount + Max({d, 0}))

C23_Witness ==
    \E n \in 1..Len(located) :
        LET e == located[n] IN
        /\ e.err = ""
        /\ e.action = Replace
        /\ Len(e.result) > 2
        /\ e.indentChar \in {SP, TAB}
        /\ e.bodyIndentCount > 0
        /\ e.bodyIndentCount < e.initialIndentCount

(* C24: every input line is consumed once and in order: a line is either   *)
(* copied or lies in one located span, the spans follow one another, the   *)
(* data of a span is its lines, and after a span the scan goes on with the *)
(* line that follows the span's last line.                                 *)
C24_EachLineOnce ==
    /\ [](\A n \in 1..Len(located) :
            LET e == located[n] IN
            /\ e.first <= e.last
            /\ e.last <= pos
            /\ [k \in 1..Len(e.data) |-> e.data[k].l]
                  = SubSeq(InLines, e.first, e.last)
            /\ n > 1 => e.first = located[n - 1].last + 1
                        \/ ( /\ e.first > located[n - 1].last + 1
                             /\ \A i \in (located[n - 1].last + 1)..(e.first - 1) :
                                  Registered(InLines[i]) = <<>> ))
    /\ [](OutLines = Emitted(1, 1, pos))
    /\ [][ pos' # pos =>
            \/ /\ located' = located
               /\ pos' = pos + 1
               /\ OutLines' = Append(OutLines, InLines[pos + 1])
            \/ /\ Len(located') = Len(located) + 1
               /\ SubSeq(located', 1, Len(located)) = located
               /\ located'[Len(located')].first = pos + 1
               /\ located'[Len(located')].last = pos' ]_vars

C24_Witness ==
    /\ pc = "done"
    /\ \E n \in 1..Len(located) :
        /\ located[n].first > 1
        /\ located[n].last > located[n].first
        /\ located[n].last < Len(raw)
        /\ located[n].action = NoOp
        /\ located[n].err = ""

(* C25: a function result whose EditAction is none of NoOp, Delete and     *)
(* Replace makes the pass fail with the error "unknown EditAction".        *)
C25_UnknownActionIsError ==
    \A n \in 1..Len(located) :
        LET e == located[n] IN
        (\E j \in 1..Len(e.calls) : e.calls[j].res \notin {NoOp, Delete, Replace})
        => (pc = "error" /\ ret.err = "unknown EditAction")

(* C26: a located span never extends past its element: it ends on the line *)
(* that closes the element, which for an element written on one line, or   *)
(* self-closing, is the opening line.                                      *)
C26_SpanWithinElement ==
    \A n \in 1..Len(located) :
        LET e == located[n]
            endLine == ElementLastLine(InLines, e.first)
        IN (e.err = "" /\ endLine # 0) => e.last = endLine

(* C27: the three prefixes of a span consist of whitespace only, and for   *)
(* an element whose opening line is not indented the prefix of the opening *)
(* and closing lines is empty.                                             *)
C27_PrefixesAreWhitespace ==
    \A n \in 1..Len(located) :
        LET e == located[n] IN
        /\ \A p \in {StartAndEndLinePrefix(e), BodyPrefix(e), RelativeBodyPrefix(e)} :
              \A k \in 1..Len(p) : p[k] \in {SP, TAB}
        /\ InLines[e.first].ind = <<>> => StartAndEndLinePrefix(e) = <<>>

(* C29: the pass terminates: every step of the scan loop consumes at least *)
(* one input line of the finitely many, no element has more function       *)
(* invocations than there are registered functions for its kind, and a     *)
(* pass that has not returned can take a step, which lowers the number of  *)
(* steps left.                                                             *)
StepsLeft ==
    (IF pc = "start" THEN 1 ELSE 0)
    + (IF pc \in {"done", "error"} THEN 0 ELSE 1)
    + (Len(raw) - pos)

\* The guards of the steps: Validate when the pass has just been entered,
\* Finish when the scanner has no line left, CopyLine or EditElement for the
\* line it hands out.
CanStep ==
    \/ pc = "start"
    \/ pc = "scan" /\ pos = Len(raw)
    \/ /\ pc = "scan" /\ pos < Len(raw)
       /\ LET fs   == Registered(InLines[pos + 1])
              kind == FirstRawToken(InLines[pos + 1]).name.local
          IN fs # <<>> =>
               AnswerLists(fs,
                   FindAndDeserializeObject(InLines, pos + 1, assumedEol, kind).rec,
                   kind) # {}

C29_Terminates ==
    /\ [][ /\ StepsLeft' < StepsLeft
           /\ pc = "scan" => \/ pc' = "done" /\ pos = Len(raw)
                             \/ pos' > pos ]_vars
    /\ [](StepsLeft >= 0)
    /\ [](pc \in {"done", "error"} \/ CanStep)
    /\ [](\A n \in 1..Len(located) :
            Len(located[n].calls) <= Len(RegisteredFor(located[n].kind)))

C29_Witness ==
    /\ pc = "done"
    /\ pos = Len(raw)
    /\ \E n \in 1..Len(located) :
        /\ Len(located[n].calls) = MaxProposals
        /\ located[n].last > located[n].first

(* C28: an Item replaced by a record that a function obtained from the     *)
(* Item's own decoded record keeps every child element of the original     *)
(* Item, with its text, unless the function changed the field that holds   *)
(* it; this includes the children that have no field in the record.        *)
ChildElements(toks) ==
    LET close == ElementEnd(toks, 1, 0) IN
    {<<toks[i].name.local, ChildText(toks, i)>> :
        i \in {j \in 2..(close - 1) :
                  toks[j].t \in {"start", "selfclose"} /\ Depth(toks, j) = 1}}

C28_ReplaceKeepsChildren ==
    \A n \in 1..Len(located) :
        LET e == located[n] IN
        ( /\ e.err = ""
          /\ e.kind = itemFieldName
          /\ e.action = Replace
          /\ e.calls[Len(e.calls)].modified )
        => \A c \in ChildElements(ToksOf(ElementLines(InLines, e.first))) :
              \/ c \in ChildElements(ToksOf(ResultLines(e)))
              \/ /\ c[1] \in FieldNames(ItemFields)
                 /\ e.new[c[1]] # e.decoded[c[1]]

(* C21: run with -f and without -o, main passes to BasicConvert the input  *)
(* file's directory followed by the input file's name with "-vmware"       *)
(* inserted before its extension, or appended to a name without extension. *)
(* Paths are compared as path.Clean leaves them.                           *)
C21_DefaultOutputPath ==
    (convert.pc = "entry" /\ convert.args.o = <<>>) =>
        LET p      == convert.args.f
            i      == LastIndex(p, "/")
            dir    == SubSeq(p, 1, i + 1)
            name   == SubSeq(p, i + 2, Len(p))
            dot    == LastIndex(name, ".")
            vmware == <<"-", "v", "m", "w", "a", "r", "e">>
        IN /\ convert.ovfFilePath = p
           /\ dot < 0 => pathClean(convert.newFilePath)
                           = pathClean(dir \o name \o vmware)
           /\ dot > 0 => pathClean(convert.newFilePath)
                           = pathClean(dir \o SubSeq(name, 1, dot) \o vmware
                                       \o SubSeq(name, dot + 1, Len(name)))

(* C30: after deleteFrom and replaceFrom calls at increasing offsets of     *)
(* original, subtractCurrentOffsetBy is the number of bytes by which       *)
(* result is shorter than original, the byte at every offset p of original *)
(* after the last edited range is result[p - subtractCurrentOffsetBy], and *)
(* no call has gone outside result.                                        *)
C30_OffsetBookkeeping ==
    mangler.pc # "none" =>
        /\ mangler.pc = "ready"
        /\ mangler.subtractCurrentOffsetBy
              = Len(mangler.original) - Len(mangler.result)
        /\ \A p \in mangler.edited..(Len(mangler.original) - 1) :
              LET q == p - mangler.subtractCurrentOffsetBy IN
              /\ 0 <= q
              /\ q < Len(mangler.result)
              /\ mangler.result[q + 1] = mangler.original[p + 1]

====
